---------------------------- MODULE Spec2Model ----------------------------
(***************************************************************************)
(* Model of scheduler.py: a class-schedule CSV is turned into weekly       *)
(* recurring Google Calendar events.  Text is kept as TLA+ strings and is  *)
(* examined character by character, the way str.strip, str.lower, `in`    *)
(* and datetime.strptime examine it.                                       *)
(***************************************************************************)
EXTENDS Integers, Sequences, FiniteSets, TLC

(***************************************************************************)
(* Bounds of the model.                                                    *)
(***************************************************************************)
\* longest table of the main specification (records after the header line)
MaxRows == 2
\* how many times the importer is started on the same directory and calendar
MaxRuns == 2
\* the term dates range over NumYears whole years from BaseYear on
NumYears == 2
\* course names are built from at most MaxWords fragments
MaxWords == 3

(***************************************************************************)
(* Text helpers.                                                           *)
(***************************************************************************)
Char(s, k) == SubSeq(s, k, k)

UpperAlpha == "ABCDEFGHIJKLMNOPQRSTUVWXYZ"
LowerAlpha == "abcdefghijklmnopqrstuvwxyz"
Digits == "0123456789"

IsSpace(c) == c \in {" ", "\t"}

IsDigit(c) == \E k \in 1..10 : Char(Digits, k) = c

DigitVal(c) == (CHOOSE k \in 1..10 : Char(Digits, k) = c) - 1

\* int() of a non-empty run of decimal digits
RECURSIVE IntOf(_)
IntOf(s) ==
    IF s = "" THEN 0
    ELSE 10 * IntOf(SubSeq(s, 1, Len(s) - 1)) + DigitVal(Char(s, Len(s)))

AllDigits(s) == \A k \in 1..Len(s) : IsDigit(Char(s, k))

\* str.strip(): leading and trailing whitespace removed
RECURSIVE LStrip(_)
LStrip(s) == IF s # "" /\ IsSpace(Head(s)) THEN LStrip(Tail(s)) ELSE s

RECURSIVE RStrip(_)
RStrip(s) ==
    IF s # "" /\ IsSpace(Char(s, Len(s)))
    THEN RStrip(SubSeq(s, 1, Len(s) - 1))
    ELSE s

Strip(s) == RStrip(LStrip(s))

LowerChar(c) ==
    IF \E k \in 1..26 : Char(UpperAlpha, k) = c
    THEN Char(LowerAlpha, CHOOSE k \in 1..26 : Char(UpperAlpha, k) = c)
    ELSE c

\* str.lower()
RECURSIVE Lower(_)
Lower(s) == IF s = "" THEN "" ELSE LowerChar(Head(s)) \o Lower(Tail(s))

\* sub in s
Contains(s, sub) ==
    \E k \in 1..(Len(s) - Len(sub) + 1) : SubSeq(s, k, k + Len(sub) - 1) = sub

\* zero-padded decimal text of n, as %m %d %H %M (width 2) and %Y (width 4)
Fmt2(n) ==
    Char(Digits, ((n \div 10) % 10) + 1) \o Char(Digits, (n % 10) + 1)

Fmt4(n) == Fmt2(n \div 100) \o Fmt2(n % 100)

(***************************************************************************)
(* Calendar dates: datetime.date as [y, m, d], with the proleptic          *)
(* Gregorian ordinal that weekday() and timedelta arithmetic rest on.      *)
(***************************************************************************)
BaseYear == 2023

Years == BaseYear..(BaseYear + NumYears - 1)

IsLeap(y) == y % 4 = 0 /\ (y % 100 # 0 \/ y % 400 = 0)

DaysInMonth(y, m) ==
    IF m = 2 THEN (IF IsLeap(y) THEN 29 ELSE 28)
    ELSE IF m \in {4, 6, 9, 11} THEN 30 ELSE 31

DaysBeforeYear(y) ==
    (y - 1) * 365 + (y - 1) \div 4 - (y - 1) \div 100 + (y - 1) \div 400

RECURSIVE DaysBeforeMonth(_, _)
DaysBeforeMonth(y, m) ==
    IF m = 1 THEN 0 ELSE DaysBeforeMonth(y, m - 1) + DaysInMonth(y, m - 1)

ToOrdinal(dt) == DaysBeforeYear(dt.y) + DaysBeforeMonth(dt.y, dt.m) + dt.d

FromOrdinal(n) ==
    LET y == CHOOSE yy \in (BaseYear - 1)..(BaseYear + NumYears + 1) :
                 DaysBeforeYear(yy) < n /\ n <= DaysBeforeYear(yy + 1)
        r == n - DaysBeforeYear(y)
        m == CHOOSE mm \in 1..12 :
                 DaysBeforeMonth(y, mm) < r
                 /\ r <= DaysBeforeMonth(y, mm) + DaysInMonth(y, mm)
    IN  [y |-> y, m |-> m, d |-> r - DaysBeforeMonth(y, m)]

\* date + timedelta(days=k)
AddDays(dt, k) == FromOrdinal(ToOrdinal(dt) + k)

\* date.weekday(): Monday = 0 ... Sunday = 6
Weekday(dt) == (ToOrdinal(dt) + 6) % 7

\* strftime("%Y-%m-%d")
IsoDate(dt) == Fmt4(dt.y) \o "-" \o Fmt2(dt.m) \o "-" \o Fmt2(dt.d)

\* datetime.strptime(s, "%Y-%m-%d") of a well-formed configuration date
StrptimeYmd(s) ==
    [y |-> IntOf(SubSeq(s, 1, 4)),
     m |-> IntOf(SubSeq(s, 6, 7)),
     d |-> IntOf(SubSeq(s, 9, 10))]

Dates ==
    {[y |-> y, m |-> m, d |-> d] : y \in Years, m \in 1..12, d \in 1..31}

ValidDates == {dt \in Dates : dt.d <= DaysInMonth(dt.y, dt.m)}

(***************************************************************************)
(* datetime.strptime(s, "%I:%M %p").time()                                 *)
(* The format compiles to  (1[0-2]|0[1-9]|[1-9]):([0-5]\d|\d)\s+(am|pm)    *)
(* matched ignoring case, and the whole text must be consumed.  The result *)
(* is <<hour, minute>> on the 24-hour clock, or <<>> for ValueError.       *)
(***************************************************************************)
HourText(t) ==
    /\ AllDigits(t)
    /\ \/ Len(t) = 1 /\ t # "0"
       \/ Len(t) = 2 /\ Char(t, 1) = "1" /\ Char(t, 2) \in {"0", "1", "2"}
       \/ Len(t) = 2 /\ Char(t, 1) = "0" /\ Char(t, 2) # "0"

MinuteText(t) ==
    /\ AllDigits(t)
    /\ \/ Len(t) = 1
       \/ Len(t) = 2 /\ DigitVal(Char(t, 1)) <= 5

AllSpace(t) == \A k \in 1..Len(t) : IsSpace(Char(t, k))

\* the (hour width, minute width) splits of s that the pattern accepts
TimeSplits(s) ==
    {hm \in (1..2) \X (1..2) :
        LET h == hm[1]
            m == hm[2]
            n == Len(s)
        IN  /\ n >= h + 1 + m + 1 + 2
            /\ HourText(SubSeq(s, 1, h))
            /\ Char(s, h + 1) = ":"
            /\ MinuteText(SubSeq(s, h + 2, h + 1 + m))
            /\ AllSpace(SubSeq(s, h + 2 + m, n - 2))
            /\ Lower(SubSeq(s, n - 1, n)) \in {"am", "pm"}}

StrptimeIMp(s) ==
    IF TimeSplits(s) = {} THEN <<>>
    ELSE LET hm == CHOOSE x \in TimeSplits(s) : TRUE
             hour == IntOf(SubSeq(s, 1, hm[1]))
             minute == IntOf(SubSeq(s, hm[1] + 2, hm[1] + 1 + hm[2]))
             pm == Lower(SubSeq(s, Len(s) - 1, Len(s))) = "pm"
         IN  <<IF pm THEN (IF hour = 12 THEN 12 ELSE hour + 12)
               ELSE (IF hour = 12 THEN 0 ELSE hour),
               minute>>

(***************************************************************************)
(* DAY_TO_INT and calculate_first_occurrence.                              *)
(***************************************************************************)
DayNames ==
    <<"Monday", "Tuesday", "Wednesday", "Thursday", "Friday", "Saturday",
      "Sunday">>

\* DAY_TO_INT.get(weekday_name): <<n>> for a key of the table, <<>> for None
DAY_TO_INT(weekday_name) ==
    IF \E k \in 1..7 : DayNames[k] = weekday_name
    THEN <<(CHOOSE k \in 1..7 : DayNames[k] = weekday_name) - 1>>
    ELSE <<>>

\* the offset in days from the term start to the target weekday
DeltaBuggy(target_int, term_start) == target_int - Weekday(term_start)

Delta(target_int, term_start) == (target_int - Weekday(term_start)) % 7

\* <<date>>, or <<>> when ValueError("Invalid day name") is raised
calculate_first_occurrence(term_start_str, weekday_name) ==
    LET term_start == StrptimeYmd(term_start_str)
        target_int == DAY_TO_INT(weekday_name)
    IN  IF target_int = <<>> THEN <<>>
        ELSE <<AddDays(term_start, Delta(target_int[1], term_start))>>

(***************************************************************************)
(* generate_event_id.  SHA-1 is not computed: Sha1Hex20 tags its input, so *)
(* equal inputs give equal digests and distinct inputs distinct ones (the  *)
(* collision-free reading of an 80-bit digest prefix).                     *)
(***************************************************************************)
Sha1Hex20(raw) == <<"sha1", raw>>

RawId(course_code, session_type, day, start_time) ==
    course_code \o "-" \o session_type \o "-" \o day \o "-" \o start_time

generate_event_id(course_code, session_type, day, start_time) ==
    <<"cls", Sha1Hex20(RawId(course_code, session_type, day, start_time))>>

(***************************************************************************)
(* The session type of a course name (main, the if/elif on name.lower()).  *)
(***************************************************************************)
SessionTypeTutorialFirst(name) ==
    IF Contains(Lower(name), "tutorial") THEN "Tutorial"
    ELSE IF Contains(Lower(name), "lab") THEN "Lab"
    ELSE "Lecture"

SessionType(name) ==
    IF Contains(Lower(name), "lab") THEN "Lab"
    ELSE IF Contains(Lower(name), "tutorial") THEN "Tutorial"
    ELSE "Lecture"

(***************************************************************************)
(* The program's world and state.                                          *)
(***************************************************************************)
CONFIG_FILE == "config.json"
TOKEN_FILE == "token.json"
CREDENTIALS_FILE == "credentials.json"
CSV_FILE == "schedule.csv"

required_headers ==
    {"Course Name", "Course Code", "Day", "Start Time", "End Time",
     "Location"}

VARIABLES
    files,          \* the files that exist in the working directory
    token,          \* the credentials token.json holds: valid, refreshable
                    \* (expired, with a refresh token) or stale
    config,         \* config.json: term_start_date, term_end_date
    header,         \* reader.fieldnames: <<set of columns>>, <<>> for None
    table,          \* the records after the header line, as DictReader
                    \* yields them: a cell is <<text>>, or <<>> for None
    calendar,       \* the events the calendar service holds
    pc,             \* where the run is
    run,            \* the number of the run
    i,              \* the record the reader is at
    recurrence_end, \* main's local of that name
    event,          \* the event body being inserted, <<body>>
    out,            \* per run, the lines printed
    sent,           \* per run, the insert requests executed
    before          \* the calendar when the current run started

vars ==
    <<files, token, config, header, table, calendar, pc, run, i,
      recurrence_end, event, out, sent, before>>

world == <<files, token, config, header, table>>

Terminal == {"done", "returned", "exit1", "crashed"}

\* the exit status of the process: 0 when main returns, 1 for sys.exit(1)
\* and for an uncaught exception
ExitStatus == IF pc \in {"done", "returned"} THEN 0 ELSE 1

Line(kind, row, detail) == [kind |-> kind, row |-> row, detail |-> detail]

Say(line) == out' = [out EXCEPT ![run] = Append(@, line)]

Cells == {"name", "code", "day", "start", "end", "loc"}

(***************************************************************************)
(* One record of the loop body up to the insert: the stripped cells, the   *)
(* session type, the first occurrence and the event body.                  *)
(***************************************************************************)
\* row[...].strip() raises AttributeError on a cell that is None
HasNone(row) == \E c \in Cells : row[c] = <<>>

RecurrenceEndSameDay(term_end_date) ==
    LET dt == StrptimeYmd(term_end_date)
    IN  Fmt4(dt.y) \o Fmt2(dt.m) \o Fmt2(dt.d) \o "T000000Z"

\* (term_end + timedelta(days=1)).strftime("%Y%m%dT000000Z")
RecurrenceEnd(term_end_date) ==
    LET dt == AddDays(StrptimeYmd(term_end_date), 1)
    IN  Fmt4(dt.y) \o Fmt2(dt.m) \o Fmt2(dt.d) \o "T000000Z"

\* strftime("%Y-%m-%dT%H:%M:%S") of datetime.combine(date, time)
DateTimeText(dt, hm) ==
    IsoDate(dt) \o "T" \o Fmt2(hm[1]) \o ":" \o Fmt2(hm[2]) \o ":00"

EventIdOfParsedTime(code, session_type, day, start_str) ==
    LET hm == StrptimeIMp(start_str)
    IN  generate_event_id(code, session_type, day,
                          Fmt2(hm[1]) \o ":" \o Fmt2(hm[2]))

\* an id that also depends on the run that makes it
EventIdSalted(code, session_type, day, start_str) ==
    generate_event_id(code \o "#" \o Fmt2(run), session_type, day, start_str)

EventId(code, session_type, day, start_str) ==
    generate_event_id(code, session_type, day, start_str)

\* <<event_body>>, or <<>> when the try block raises ValueError.  The dash
\* of the summary stands for the en dash of the source.
Build(row, term_start, rec_end) ==
    LET name == Strip(row.name[1])
        code == Strip(row.code[1])
        day == Strip(row.day[1])
        start_str == Strip(row.start[1])
        end_str == Strip(row.end[1])
        loc == Strip(row.loc[1])
        session_type == SessionType(name)
        first_date == calculate_first_occurrence(term_start, day)
        start_t == StrptimeIMp(start_str)
        end_t == StrptimeIMp(end_str)
    IN  IF first_date = <<>> \/ start_t = <<>> \/ end_t = <<>> THEN <<>>
        ELSE <<[summary |-> code \o " - " \o name \o " (" \o session_type \o ")",
                location |-> loc,
                description |->
                    "Session: " \o session_type \o "\nCourse: " \o name,
                start |-> [dateTime |-> DateTimeText(first_date[1], start_t),
                           timeZone |-> "America/Toronto"],
                end |-> [dateTime |-> DateTimeText(first_date[1], end_t),
                         timeZone |-> "America/Toronto"],
                recurrence |-> <<"RRULE:FREQ=WEEKLY;UNTIL=" \o rec_end>>,
                id |-> EventId(code, session_type, day, start_str)]>>

(***************************************************************************)
(* The inputs the specifications draw from.                                *)
(***************************************************************************)
AllFiles == {CONFIG_FILE, CSV_FILE, TOKEN_FILE, CREDENTIALS_FILE}

FullHeader == <<required_headers>>

Dir(fs, tk, hd) == [files |-> fs, token |-> tk, header |-> hd]

GoodDir == Dir(AllFiles, "valid", FullHeader)

\* the working directories a run is started in
Dirs ==
    {GoodDir,
     Dir(AllFiles \ {CONFIG_FILE}, "valid", FullHeader),
     Dir(AllFiles \ {CSV_FILE}, "valid", FullHeader),
     Dir(AllFiles \ {TOKEN_FILE}, "none", FullHeader),
     Dir({CONFIG_FILE, CSV_FILE}, "none", FullHeader),
     Dir(AllFiles, "refreshable", FullHeader),
     Dir(AllFiles, "stale", FullHeader),
     Dir(AllFiles, "valid", <<>>),
     Dir(AllFiles, "valid", <<required_headers \ {"Location"}>>),
     Dir(AllFiles \ {TOKEN_FILE}, "none", <<required_headers \ {"Day"}>>),
     Dir(AllFiles, "valid", <<{"Course Name", "Day", "Room"}>>)}

Row(name, code, day, start, end, loc) ==
    [name |-> <<name>>, code |-> <<code>>, day |-> <<day>>,
     start |-> <<start>>, end |-> <<end>>, loc |-> <<loc>>]

\* a record with fewer fields than the header: the missing cells are None
ShortRow(name, code, day) ==
    [name |-> <<name>>, code |-> <<code>>, day |-> <<day>>,
     start |-> <<>>, end |-> <<>>, loc |-> <<>>]

MainRows ==
    {Row("Calculus", "MATH101", "Monday", "1:30 PM", "2:30 PM", "R1"),
     Row("Physics Lab", " PHYS1", "Friday ", "10:00 am", "12:00 PM", "L2"),
     Row("Calculus", "MATH101", "Funday", "1:30 PM", "2:30 PM", "R1"),
     Row("Physics Lab", "PHYS1", "Friday", "13:30", "12:00 PM", "L2"),
     Row("Physics Lab", "PHYS1", "Friday", "10:00 am", "12:00", "L2"),
     ShortRow("Calculus", "MATH101", "Monday")}

Tables(rows, n) == UNION {[1..k -> rows] : k \in 0..n}

IsoDates(ds) == {IsoDate(dt) : dt \in ds}

TermStart == "2024-01-03"
TermEnd == "2024-04-05"

InitWith(dirs, tables, starts, ends) ==
    /\ \E w \in dirs :
        /\ files = w.files
        /\ token = w.token
        /\ header = w.header
    /\ table \in tables
    /\ config \in [term_start_date : starts, term_end_date : ends]
    /\ calendar = {}
    /\ pc = "start"
    /\ run = 1
    /\ i = 0
    /\ recurrence_end = ""
    /\ event = <<>>
    /\ out = [r \in 1..MaxRuns |-> <<>>]
    /\ sent = [r \in 1..MaxRuns |-> <<>>]
    /\ before = {}

Init == InitWith(Dirs, Tables(MainRows, MaxRows), {TermStart}, {TermEnd})

(***************************************************************************)
(* load_config and the start of main.                                      *)
(***************************************************************************)
LoadConfigMissing ==
    /\ pc = "start"
    /\ CONFIG_FILE \notin files
    /\ Say(Line("Error: config.json not found", 0, <<>>))
    /\ pc' = "exit1"
    /\ UNCHANGED <<world, calendar, run, i, recurrence_end, event, sent,
                   before>>

LoadConfig ==
    /\ pc = "start"
    /\ CONFIG_FILE \in files
    /\ pc' = "csv_check"
    /\ UNCHANGED <<world, calendar, run, i, recurrence_end, event, out, sent,
                   before>>

CsvMissing ==
    /\ pc = "csv_check"
    /\ CSV_FILE \notin files
    /\ Say(Line("Error: CSV file not found", 0, <<>>))
    /\ pc' = "returned"
    /\ UNCHANGED <<world, calendar, run, i, recurrence_end, event, sent,
                   before>>

CsvFound ==
    /\ pc = "csv_check"
    /\ CSV_FILE \in files
    /\ Say(Line("Authenticating with Google...", 0, <<>>))
    /\ pc' = "auth"
    /\ UNCHANGED <<world, calendar, run, i, recurrence_end, event, sent,
                   before>>

(***************************************************************************)
(* get_calendar_service.                                                   *)
(***************************************************************************)
HasToken == TOKEN_FILE \in files

AuthValid ==
    /\ pc = "auth"
    /\ HasToken /\ token = "valid"
    /\ pc' = "term"
    /\ UNCHANGED <<world, calendar, run, i, recurrence_end, event, out, sent,
                   before>>

\* creds.refresh succeeds; the refreshed token is written back
AuthRefresh ==
    /\ pc = "auth"
    /\ HasToken /\ token = "refreshable"
    /\ token' = "valid"
    /\ pc' = "term"
    /\ UNCHANGED <<files, config, header, table, calendar, run, i,
                   recurrence_end, event, out, sent, before>>

\* creds.refresh raises: token.json is removed and the function starts over
AuthRefreshFails ==
    /\ pc = "auth"
    /\ HasToken /\ token = "refreshable"
    /\ files' = files \ {TOKEN_FILE}
    /\ token' = "none"
    /\ UNCHANGED <<config, header, table, calendar, pc, run, i,
                   recurrence_end, event, out, sent, before>>

AuthNoCredentials ==
    /\ pc = "auth"
    /\ ~HasToken \/ token = "stale"
    /\ CREDENTIALS_FILE \notin files
    /\ Say(Line("Error: credentials.json is missing.", 0, <<>>))
    /\ pc' = "exit1"
    /\ UNCHANGED <<world, calendar, run, i, recurrence_end, event, sent,
                   before>>

\* the OAuth login flow; its token is written to token.json
AuthFlow ==
    /\ pc = "auth"
    /\ ~HasToken \/ token = "stale"
    /\ CREDENTIALS_FILE \in files
    /\ files' = files \cup {TOKEN_FILE}
    /\ token' = "valid"
    /\ pc' = "term"
    /\ UNCHANGED <<config, header, table, calendar, run, i, recurrence_end,
                   event, out, sent, before>>

(***************************************************************************)
(* main: the term dates, then the header check.                            *)
(***************************************************************************)
ReadTerm ==
    /\ pc = "term"
    /\ recurrence_end' = RecurrenceEnd(config.term_end_date)
    /\ Say(Line("Reading schedule.csv...", 0, <<>>))
    /\ pc' = "open"
    /\ UNCHANGED <<world, calendar, run, i, event, sent, before>>

\* an empty file: reader.fieldnames is None and `h in None` raises TypeError
HeaderNone ==
    /\ pc = "open"
    /\ header = <<>>
    /\ pc' = "crashed"
    /\ UNCHANGED <<world, calendar, run, i, recurrence_end, event, out, sent,
                   before>>

HeaderMissing ==
    /\ pc = "open"
    /\ header # <<>>
    /\ ~(required_headers \subseteq header[1])
    /\ Say(Line("Error: CSV is missing required columns", 0, <<>>))
    /\ pc' = "returned"
    /\ UNCHANGED <<world, calendar, run, i, recurrence_end, event, sent,
                   before>>

\* the loop entered without the header check
HeaderOkUnchecked ==
    /\ pc = "open"
    /\ header # <<>>
    /\ pc' = "rows"
    /\ i' = 1
    /\ UNCHANGED <<world, calendar, run, recurrence_end, event, out, sent,
                   before>>

HeaderOk ==
    /\ pc = "open"
    /\ header # <<>>
    /\ required_headers \subseteq header[1]
    /\ pc' = "rows"
    /\ i' = 1
    /\ UNCHANGED <<world, calendar, run, recurrence_end, event, out, sent,
                   before>>

(***************************************************************************)
(* main: the loop over the records.                                        *)
(***************************************************************************)
AtRow == pc = "rows" /\ i <= Len(table)

\* the reader is exhausted: "Import complete!" and main returns
LoopEnd ==
    /\ pc = "rows"
    /\ i > Len(table)
    /\ Say(Line("Import complete!", 0, <<>>))
    /\ pc' = "done"
    /\ UNCHANGED <<world, calendar, run, i, recurrence_end, event, sent,
                   before>>

\* .strip() on a None cell: AttributeError, which nothing catches
RowNone ==
    /\ AtRow
    /\ HasNone(table[i])
    /\ pc' = "crashed"
    /\ UNCHANGED <<world, calendar, run, i, recurrence_end, event, out, sent,
                   before>>

\* except ValueError: the record is reported and the loop continues
RowSkipSilently ==
    /\ AtRow
    /\ ~HasNone(table[i])
    /\ Build(table[i], config.term_start_date, recurrence_end) = <<>>
    /\ i' = i + 1
    /\ UNCHANGED <<world, calendar, pc, run, recurrence_end, event, out,
                   sent, before>>

RowSkip ==
    /\ AtRow
    /\ ~HasNone(table[i])
    /\ Build(table[i], config.term_start_date, recurrence_end) = <<>>
    /\ Say(Line("Skipping row due to time format error", i, <<>>))
    /\ i' = i + 1
    /\ UNCHANGED <<world, calendar, pc, run, recurrence_end, event, sent,
                   before>>

\* the event body is built and the insert request goes out
RowBuild ==
    /\ AtRow
    /\ ~HasNone(table[i])
    /\ LET built == Build(table[i], config.term_start_date, recurrence_end)
       IN  built # <<>> /\ event' = built
    /\ sent' = [sent EXCEPT ![run] = Append(@, [row |-> i, body |-> event'[1]])]
    /\ pc' = "insert"
    /\ UNCHANGED <<world, calendar, run, i, recurrence_end, out, before>>

HeldIds == {e.id : e \in calendar}

\* statuses of an HttpError other than 409
ErrorStatuses == {500}

\* what the loop does once execute() has returned or raised HttpError
AfterInsertRetry(line) ==
    /\ Say(line)
    /\ pc' = "rows"
    /\ i' = IF line.kind = "Error creating" THEN i ELSE i + 1
    /\ event' = <<>>

AfterInsert(line) ==
    /\ Say(line)
    /\ pc' = "rows"
    /\ i' = i + 1
    /\ event' = <<>>

InsertCreated ==
    /\ pc = "insert"
    /\ event[1].id \notin HeldIds
    /\ calendar' = calendar \cup {event[1]}
    /\ AfterInsert(Line("Created", i, <<>>))
    /\ UNCHANGED <<world, run, recurrence_end, sent, before>>

\* HttpError 409: the calendar already holds the id
InsertConflict ==
    /\ pc = "insert"
    /\ event[1].id \in HeldIds
    /\ AfterInsert(Line("Skipped (Exists)", i, <<>>))
    /\ UNCHANGED <<world, calendar, run, recurrence_end, sent, before>>

\* any other HttpError: nothing is stored
InsertError ==
    /\ pc = "insert"
    /\ \E st \in ErrorStatuses : AfterInsert(Line("Error creating", i, <<st>>))
    /\ UNCHANGED <<world, calendar, run, recurrence_end, sent, before>>

(***************************************************************************)
(* The importer is started again, on the same directory and calendar.      *)
(***************************************************************************)
Rerun ==
    /\ pc \in Terminal
    /\ run < MaxRuns
    /\ run' = run + 1
    /\ pc' = "start"
    /\ i' = 0
    /\ recurrence_end' = ""
    /\ event' = <<>>
    /\ before' = calendar
    /\ UNCHANGED <<world, calendar, out, sent>>

OneRun ==
    \/ LoadConfigMissing
    \/ LoadConfig
    \/ CsvMissing
    \/ CsvFound
    \/ AuthValid
    \/ AuthRefresh
    \/ AuthRefreshFails
    \/ AuthNoCredentials
    \/ AuthFlow
    \/ ReadTerm
    \/ HeaderNone
    \/ HeaderMissing
    \/ HeaderOk
    \/ LoopEnd
    \/ RowNone
    \/ RowSkip
    \/ RowBuild
    \/ InsertCreated
    \/ InsertConflict
    \/ InsertError

Next == OneRun \/ Rerun

Spec == Init /\ [][Next]_vars

(***************************************************************************)
(* Specifications that widen one input of a single run: the term dates,    *)
(* and the course names.  Each keeps the inputs of Init beside the wide    *)
(* ones.                                                                   *)
(***************************************************************************)
DayRows ==
    {Row("Calculus", "MATH101", DayNames[k], "9:05 AM", "10:00 AM", "R1") :
        k \in 1..7}
    \cup {Row("Calculus", "MATH101", "monday", "9:05 AM", "10:00 AM", "R1")}

TwoRows ==
    <<Row("Calculus", "MATH101", "Monday", "1:30 PM", "2:30 PM", "R1"),
      Row("Physics Lab", "PHYS1", "Friday", "10:00 am", "12:00 PM", "L2")>>

InitDates ==
    \/ Init
    \/ InitWith({GoodDir}, {<<r>> : r \in DayRows}, IsoDates(ValidDates),
                {TermEnd})
    \/ InitWith({GoodDir}, {TwoRows}, {TermStart}, IsoDates(ValidDates))

SpecDates == InitDates /\ [][OneRun]_vars

\* records that build, alike and unlike in the values the id is made of
IdRows ==
    {Row("Calculus", "MATH101", "Monday", "1:30 PM", "2:30 PM", "R1"),
     Row("Calculus II", " MATH101", "Monday ", "1:30 PM", "3:00 PM", "R2"),
     Row("Calculus", "MATH101", "Monday", "01:30 PM", "2:30 PM", "R1"),
     Row("Calculus Lab", "MATH101", "Monday", "1:30 PM", "2:30 PM", "R1"),
     Row("Calculus", "MATH101", "Friday", "1:30 pm", "2:30 PM", "R1")}

InitIds ==
    \/ InitWith(Dirs, {<<r>> : r \in MainRows}, {TermStart}, {TermEnd})
    \/ InitWith({GoodDir}, {<<a, b>> : a \in IdRows, b \in IdRows},
                {TermStart}, {TermEnd})

SpecIds == InitIds /\ [][Next]_vars

Fragments == {"la", "B", "Tuto", "RIAL", "lab", "tutorial", "x "}

RECURSIVE Join(_)
Join(ws) == IF ws = <<>> THEN "" ELSE Head(ws) \o Join(Tail(ws))

Names == {Join(ws) : ws \in Tables(Fragments, MaxWords)}

InitNames ==
    \/ Init
    \/ InitWith({GoodDir},
                {<<Row(n, "MATH101", "Monday", "9:05 AM", "10:00 AM", "R1")>> :
                    n \in Names},
                {TermStart}, {TermEnd})

SpecNames == InitNames /\ [][OneRun]_vars

(***************************************************************************)
(* What the properties read off the state.                                 *)
(***************************************************************************)
Requests(r) == {sent[r][k] : k \in 1..Len(sent[r])}

AllRequests == UNION {Requests(r) : r \in 1..MaxRuns}

RowKinds ==
    {"Created", "Skipped (Exists)", "Error creating",
     "Skipping row due to time format error"}

\* the lines of run r that report on a record, in the order printed
RowLines(r) == SelectSeq(out[r], LAMBDA l : l.kind \in RowKinds)

Count(r, kind) == Len(SelectSeq(out[r], LAMBDA l : l.kind = kind))

Completed(r) ==
    out[r] # <<>> /\ out[r][Len(out[r])].kind = "Import complete!"

(***************************************************************************)
(* Properties.                                                             *)
(***************************************************************************)
\* a cell that is missing, or does not parse as a 12-hour clock value
BadTime(cell) == cell = <<>> \/ StrptimeIMp(Strip(cell[1])) = <<>>

\* a cell that is missing, or is none of the seven weekday names
BadDay(cell) ==
    cell = <<>> \/ \A k \in 1..7 : Strip(cell[1]) # DayNames[k]

BadRow(row) == BadDay(row.day) \/ BadTime(row.start) \/ BadTime(row.end)

RECURSIVE GoodIndices(_, _)
GoodIndices(rows, k) ==
    IF k > Len(rows) THEN <<>>
    ELSE (IF BadRow(rows[k]) THEN <<>> ELSE <<k>>) \o GoodIndices(rows, k + 1)

SentRows(r) == [k \in 1..Len(sent[r]) |-> sent[r][k].row]

\* C1: row isolation.  No record aborts the batch, and when the loop has
\* gone through the table the records submitted are exactly those whose Day
\* is a weekday name and whose Start Time and End Time parse, in input
\* order; a bad record is skipped with no submission.
C1_RowIsolation ==
    /\ ~(pc = "crashed" /\ i \in 1..Len(table))
    /\ pc = "done" => SentRows(run) = GoodIndices(table, 1)

\* C3: missing column pre-check.  When the header lacks a required column
\* (an empty file lacks them all), no record is reached and no event is
\* submitted or stored, in any run, whatever the table holds.
C3_MissingColumnPreCheck ==
    (header = <<>> \/ ~(required_headers \subseteq header[1]))
        => /\ \A r \in 1..MaxRuns : sent[r] = <<>>
           /\ calendar = {}
           /\ pc \notin {"rows", "insert", "done"}
           /\ i = 0

C3_Witness ==
    /\ pc = "returned"
    /\ header = <<required_headers \ {"Location"}>>
    /\ Len(table) = MaxRows
    /\ ~BadRow(table[1])
    /\ out[run][Len(out[run])].kind = "Error: CSV is missing required columns"

\* the run ended on one of the four fatal conditions: no configuration
\* file, no input table file, no credential material and no usable token,
\* or a header that lacks a required column
FatalEnd ==
    /\ pc \in Terminal
    /\ \/ CONFIG_FILE \notin files
       \/ CSV_FILE \notin files
       \/ pc = "exit1"
       \/ header = <<>>
       \/ ~(required_headers \subseteq header[1])

\* C4: every fatal condition ends the run in a non-zero completion state,
\* before any record is processed.
C4_FatalIsNonZero == FatalEnd => (ExitStatus # 0 /\ i = 0)

\* C8: the report.  When the run completes every record has exactly one
\* outcome line, in input order, among created, skipped-duplicate, failed
\* and skipped; so the four counts sum to the number of records, and every
\* failed record carries the reason of its failure.  While the loop runs,
\* the records already passed have their line.
C8_OneOutcomePerRow ==
    /\ pc = "rows" => Len(RowLines(run)) = i - 1
    /\ pc = "done" =>
        /\ Len(RowLines(run)) = Len(table)
        /\ \A k \in 1..Len(table) : RowLines(run)[k].row = k
        /\ Count(run, "Created") + Count(run, "Skipped (Exists)")
             + Count(run, "Error creating")
             + Count(run, "Skipping row due to time format error")
           = Len(table)
        /\ \A k \in 1..Len(table) :
             RowLines(run)[k].kind = "Error creating"
                 => RowLines(run)[k].detail # <<>>

C8_Witness ==
    /\ pc = "done"
    /\ Len(table) = MaxRows
    /\ Count(run, "Error creating") >= 1
    /\ Count(run, "Skipping row due to time format error") >= 1

\* the calendar service gave run r no answer but Created and Conflict
NoSinkError(r) == Count(r, "Error creating") = 0

C5_SubmissionNeverStops ==
    [][/\ pc = "insert" =>
            /\ pc' = "rows"
            /\ i' = i + 1
            /\ run' = run
            /\ sent' = sent
       /\ (pc = "rows" /\ i > Len(table)) => pc' = "done"]_vars

C5_Witness ==
    /\ pc = "done"
    /\ Len(table) = MaxRows
    /\ RowLines(run)[1].kind = "Error creating"
    /\ RowLines(run)[MaxRows].kind = "Skipped (Exists)"
    /\ Len(sent[run]) = MaxRows

\* the four values the id is made of, as main passes them
IdKey(row) ==
    <<Strip(row.code[1]), SessionType(Strip(row.name[1])), Strip(row.day[1]),
      Strip(row.start[1])>>

\* C7: the id is a function of (course code, session type, day, start-time
\* text).  Two requests, of any runs, whose records agree on the four get
\* the same id, whatever their end time, location and course name; and two
\* that differ in the start-time text alone get different ids even when
\* both texts parse to the same clock time.
C7_IdFromFourFields ==
    \A a \in AllRequests : \A b \in AllRequests :
        LET ka == IdKey(table[a.row])
            kb == IdKey(table[b.row])
        IN  /\ ka = kb => a.body.id = b.body.id
            /\ (ka[1] = kb[1] /\ ka[2] = kb[2] /\ ka[3] = kb[3]
                  /\ ka[4] # kb[4])
                 => a.body.id # b.body.id

C7_Witness ==
    /\ run = 2
    /\ \E a \in Requests(1) : \E b \in Requests(2) :
        /\ table[a.row].end # table[b.row].end
        /\ table[a.row].loc # table[b.row].loc
        /\ table[a.row].name # table[b.row].name
        /\ table[a.row].code # table[b.row].code
        /\ IdKey(table[a.row]) = IdKey(table[b.row])
        /\ a.body.id = b.body.id

\* the date an event starts on, read back from start.dateTime
FirstDate(body) == StrptimeYmd(SubSeq(body.start.dateTime, 1, 10))

\* the weekday name of a date, counted from Monday 1 January 2024
NameOfDay(dt) ==
    DayNames[((ToOrdinal(dt) - ToOrdinal([y |-> 2024, m |-> 1, d |-> 1])) % 7)
             + 1]

\* C6: the weekday resolver.  The date of every submitted event is the
\* earliest date on or after the term start that falls on the record's
\* weekday: its offset from the term start is in 0..6, it falls on that
\* weekday, no date from the term start up to it does, and the offset is 0
\* exactly when the term start falls on that weekday.
C6_FirstOccurrence ==
    \A q \in AllRequests :
        LET day == Strip(table[q.row].day[1])
            start == StrptimeYmd(config.term_start_date)
            off == ToOrdinal(FirstDate(q.body)) - ToOrdinal(start)
        IN  /\ off \in 0..6
            /\ NameOfDay(FirstDate(q.body)) = day
            /\ \A k \in 0..(off - 1) : NameOfDay(AddDays(start, k)) # day
            /\ off = 0 <=> NameOfDay(start) = day
            /\ (config.term_start_date = "2024-01-01" /\ day = "Sunday")
                 => q.body.start.dateTime = "2024-01-07T09:05:00"
            /\ (config.term_start_date = "2024-01-03" /\ day = "Monday")
                 => SubSeq(q.body.start.dateTime, 1, 10) = "2024-01-08"

C6_Witness ==
    /\ pc = "done"
    /\ \E q \in AllRequests :
        /\ NameOfDay(StrptimeYmd(config.term_start_date)) = "Monday"
        /\ Strip(table[q.row].day[1]) = "Sunday"
        /\ ToOrdinal(FirstDate(q.body))
             = ToOrdinal(StrptimeYmd(config.term_start_date)) + 6

\* the calendar day after a date, by rolling the day, the month, the year
DayAfter(dt) ==
    IF dt.d < DaysInMonth(dt.y, dt.m) THEN [dt EXCEPT !.d = dt.d + 1]
    ELSE IF dt.m < 12 THEN [y |-> dt.y, m |-> dt.m + 1, d |-> 1]
    ELSE [y |-> dt.y + 1, m |-> 1, d |-> 1]

\* C9: the inclusive recurrence bound.  The recurrence rule of every
\* submitted event ends at midnight (000000Z) of the calendar day after the
\* configured term end date, the same for every record of the run; for
\* 2024-04-05 that is 20240406T000000Z.
C9_RecurrenceBound ==
    \A q \in AllRequests :
        LET next == DayAfter(StrptimeYmd(config.term_end_date))
        IN  /\ q.body.recurrence =
                 <<"RRULE:FREQ=WEEKLY;UNTIL=" \o Fmt4(next.y) \o Fmt2(next.m)
                     \o Fmt2(next.d) \o "T000000Z">>
            /\ config.term_end_date = "2024-04-05"
                 => q.body.recurrence =
                      <<"RRULE:FREQ=WEEKLY;UNTIL=20240406T000000Z">>

C9_Witness ==
    /\ pc = "done"
    /\ SubSeq(config.term_end_date, 5, 10) = "-12-31"
    /\ Len(sent[run]) = 2
    /\ sent[run][1].body.recurrence = sent[run][2].body.recurrence
    /\ SubSeq(sent[run][1].body.recurrence[1], 29, 32) = "0101"

\* sub occurs in s when letter case is ignored
ContainsIgnoringCase(s, sub) ==
    \E k \in 1..(Len(s) - Len(sub) + 1) :
        \A j \in 1..Len(sub) : LowerChar(Char(s, k + j - 1)) = Char(sub, j)

\* C10: classification precedence.  The session type written into every
\* submitted event is Lab when the course name contains "lab" in any letter
\* case, otherwise Tutorial when it contains "tutorial", otherwise Lecture;
\* a name with both is a Lab.
C10_ClassificationPrecedence ==
    \A q \in AllRequests :
        LET name == Strip(table[q.row].name[1])
            type == IF ContainsIgnoringCase(name, "lab") THEN "Lab"
                    ELSE IF ContainsIgnoringCase(name, "tutorial")
                         THEN "Tutorial"
                    ELSE "Lecture"
        IN  /\ q.body.description =
                 "Session: " \o type \o "\nCourse: " \o name
            /\ q.body.summary =
                 Strip(table[q.row].code[1]) \o " - " \o name \o " (" \o type
                     \o ")"

C10_Witness ==
    /\ pc = "done"
    /\ \E q \in AllRequests :
        LET name == Strip(table[q.row].name[1])
        IN  /\ ContainsIgnoringCase(name, "lab")
            /\ ContainsIgnoringCase(name, "tutorial")
            /\ ~Contains(name, "lab")
            /\ q.body.description = "Session: Lab\nCourse: " \o name

=============================================================================
